---- MODULE Spec2Model ----
(***************************************************************************)
(* A model of cleaner.py: the column addressing function col_to_index,     *)
(* the two division readers, the survey layout registry SURVEY_READERS and *)
(* the row transformation loop of Cleaner.__init__.                        *)
(*                                                                         *)
(* A string that the program takes apart character by character (a column  *)
(* label) is a sequence of one-character strings; a cell of a CSV row is a *)
(* string; a row is a sequence of cells.  Python indexes rows from 0, TLA+ *)
(* sequences from 1: cell c of a row is row[c + 1].                        *)
(***************************************************************************)
EXTENDS Integers, Sequences, FiniteSets, TLC

VARIABLES
  col_name,       \* col_to_index: the argument
  col_ret,        \* col_to_index: <<>> before it returns, <<value>> after
  col_exc,        \* col_to_index: "" or the exception raised
  rd_cfg,         \* a reader object under test (its configuration)
  rd_row,         \* the row the reader under test is called on
  rd_out,         \* "" before the call, then the tuple returned or the exception raised
  infile,         \* Cleaner: the rows read from the input file so far
  i,              \* Cleaner: the number of rows taken from enumerate(reader)
  outfile,        \* Cleaner: the rows written to out.csv so far
  processed_row,  \* Cleaner: the reader's result for the last data row, <<>> if none
  status          \* Cleaner: "running", "done" or the exception that ended the run

vars == <<col_name, col_ret, col_exc, rd_cfg, rd_row, rd_out,
          infile, i, outfile, processed_row, status>>

colVars == <<col_name, col_ret, col_exc>>
rdVars == <<rd_cfg, rd_row, rd_out>>
cleanerVars == <<infile, i, outfile, processed_row, status>>

(***************************************************************************)
(* Bounds of the model.                                                    *)
(***************************************************************************)
MaxLabelLen == 3
MaxRows == 4

(***************************************************************************)
(* Characters.  UpperTable lists the characters with code points 64..91,   *)
(* LowerTable those with code points 97..123.                              *)
(***************************************************************************)
UpperTable ==
  <<"@", "A", "B", "C", "D", "E", "F", "G", "H", "I", "J", "K", "L", "M",
    "N", "O", "P", "Q", "R", "S", "T", "U", "V", "W", "X", "Y", "Z", "[">>

LowerTable ==
  <<"a", "b", "c", "d", "e", "f", "g", "h", "i", "j", "k", "l", "m",
    "n", "o", "p", "q", "r", "s", "t", "u", "v", "w", "x", "y", "z", "{">>

ord(c) ==
  IF \E k \in 1..Len(UpperTable) : UpperTable[k] = c
  THEN 63 + (CHOOSE k \in 1..Len(UpperTable) : UpperTable[k] = c)
  ELSE 96 + (CHOOSE k \in 1..Len(LowerTable) : LowerTable[k] = c)

chr(n) == IF n <= 91 THEN UpperTable[n - 63] ELSE LowerTable[n - 96]

\* str.upper() on one character: a..z are moved to A..Z, the rest is kept.
upper_char(c) ==
  IF ord(c) >= ord("a") /\ ord(c) <= ord("z") THEN chr(ord(c) - 32) ELSE c

\* str.upper()
upper(s) == [k \in 1..Len(s) |-> upper_char(s[k])]

\* reversed(s)
reversed(s) == [k \in 1..Len(s) |-> s[Len(s) + 1 - k]]

RECURSIVE pow(_, _)
pow(b, e) == IF e = 0 THEN 1 ELSE b * pow(b, e - 1)

(***************************************************************************)
(* col_to_index.  The assert of line 30 is col_to_index_asserts; the value *)
(* returned when no assert fails is col_to_index.                          *)
(***************************************************************************)
col_to_index_asserts(col_name_) ==
  LET a_value == ord("A")
      z_value == ord("Z")
      name == upper(col_name_)
  IN  \A k \in 1..Len(name) : ord(name[k]) >= a_value /\ ord(name[k]) <= z_value

\* The loop of lines 28..32 over enumerate(reversed(col_name)), from
\* position n (0-based) on, with val the value accumulated so far.
RECURSIVE col_to_index_loop(_, _, _)
col_to_index_loop(rev, n, val) ==
  IF n >= Len(rev) THEN val
  ELSE LET char_val == ord(rev[n + 1])
           digit == char_val - ord("A") + 1
       IN  col_to_index_loop(rev, n + 1, val + digit * pow(26, n))

\* A col_to_index that walks the label from the left.
col_to_index_unreversed(col_name_) ==
  col_to_index_loop(upper(col_name_), 0, 0) - 1

col_to_index(col_name_) ==
  col_to_index_loop(reversed(upper(col_name_)), 0, 0) - 1

ROW_INDEX_SURVEY_TYPE == col_to_index(<<"K">>)

(***************************************************************************)
(* Rows.  row[c] raises IndexError when c is not an index of the row;      *)
(* row[a:b] never raises and is cut at the end of the row.                 *)
(***************************************************************************)
in_range(row, c) == c >= 0 /\ c < Len(row)

cell(row, c) == row[c + 1]

\* row[a:b] taken as row[a:b-1]
slice_short(row, a, b) == SubSeq(row, a + 1, IF b - 1 < Len(row) THEN b - 1 ELSE Len(row))

\* row[a:b]
slice(row, a, b) == SubSeq(row, a + 1, IF b < Len(row) THEN b ELSE Len(row))

\* range(a, b) as a sequence
RECURSIVE range(_, _)
range(a, b) == IF a >= b THEN <<>> ELSE <<a>> \o range(a + 1, b)

elements(s) == {s[k] : k \in 1..Len(s)}

\* [x] * n
repeat(x, n) == [k \in 1..n |-> x]

(***************************************************************************)
(* The answer records.  A namedtuple class is called with positional       *)
(* arguments: a wrong number of them raises TypeError, otherwise field     *)
(* fields[k] holds args[k].  A result is [exc, val]: exc is "" and val the *)
(* value, or exc names the exception raised.                               *)
(***************************************************************************)
DIVISION_DATA_ARGS ==
  <<"eduction", "growth",
    "virtues", "character_growth",
    "teacher_communication", "leadership_communication",
    "welcoming",
    "strengths", "weaknesses">>

DIVISION_ARG_COUNT == Len(DIVISION_DATA_ARGS)

WHOLE_SCHOOL_ARGS == <<"strengths", "weaknesses", "tenure", "iep_etc", "minority">>

WHOLE_SCHOOL_ARG_COUNT == Len(WHOLE_SCHOOL_ARGS)

namedtuple_accepts(fields, args) == Len(args) = Len(fields)

namedtuple_new(fields, args) ==
  [f \in elements(fields) |-> args[CHOOSE k \in 1..Len(fields) : fields[k] = f]]

DivisionAnswersFields == <<"division_name">> \o DIVISION_DATA_ARGS

DivisionAnswers(args) == namedtuple_new(DivisionAnswersFields, args)

WholeSchoolAnswers(args) == namedtuple_new(WHOLE_SCHOOL_ARGS, args)

getattr(answers, attr) == answers[attr]

GRAMMAR == "grammar"
MIDDLE == "middle"
HIGH == "high"

\* The items of DIVISION_TO_INDEX in iteration order: position v + 1 holds
\* the division whose index is v.
DIVISION_TO_INDEX == <<GRAMMAR, MIDDLE, HIGH>>

raised(name) == [exc |-> name, val |-> <<>>]

returned(v) == [exc |-> "", val |-> v]

(***************************************************************************)
(* SingleDivisionReader                                                    *)
(***************************************************************************)
\* A SingleDivisionReader whose end is one column too far.
SingleDivisionReader_end_off_by_one(division, start, end, strengths, weaknesses, whole_school_cols) ==
  [kind |-> "single",
   division |-> division,
   start |-> col_to_index(start),
   end |-> col_to_index(end) + 1,
   strengths |-> col_to_index(strengths),
   weaknesses |-> col_to_index(weaknesses),
   whole_school_cols |->
     [k \in 1..Len(whole_school_cols) |-> col_to_index(whole_school_cols[k])]]

SingleDivisionReader(division, start, end, strengths, weaknesses, whole_school_cols) ==
  [kind |-> "single",
   division |-> division,
   start |-> col_to_index(start),
   end |-> col_to_index(end),
   strengths |-> col_to_index(strengths),
   weaknesses |-> col_to_index(weaknesses),
   whole_school_cols |->
     [k \in 1..Len(whole_school_cols) |-> col_to_index(whole_school_cols[k])]]

\* The columns whose cells __call__ appends to division_args, in order
\* (lines 77..81).
RECURSIVE single_division_cols(_, _)
single_division_cols(self, col) ==
  IF col > self.end THEN <<self.strengths, self.weaknesses>>
  ELSE IF col \notin elements(self.whole_school_cols)
       THEN <<col>> \o single_division_cols(self, col + 1)
       ELSE single_division_cols(self, col + 1)

\* The tuple built by lines 85..91 (and 124..132): WholeSchoolAnswers(*whole_args)
\* first, then DivisionAnswers(*args_of[d]) for each division d in the order of
\* DIVISION_TO_INDEX.
answers_tuple(args_of, whole_args) ==
  IF ~namedtuple_accepts(WHOLE_SCHOOL_ARGS, whole_args) THEN raised("TypeError")
  ELSE IF \E d \in elements(DIVISION_TO_INDEX) :
            ~namedtuple_accepts(DivisionAnswersFields, args_of[d])
  THEN raised("TypeError")
  ELSE returned([v \in 1..4 |->
                   IF v = 4 THEN WholeSchoolAnswers(whole_args)
                   ELSE DivisionAnswers(args_of[DIVISION_TO_INDEX[v]])])

SingleDivisionReader_call(self, row) ==
  LET cols == single_division_cols(self, self.start)
      division_args == <<self.division>> \o [k \in 1..Len(cols) |-> cell(row, cols[k])]
      whole_args == [k \in 1..Len(self.whole_school_cols) |->
                       cell(row, self.whole_school_cols[k])]
  IN  IF \E c \in elements(cols) \cup elements(self.whole_school_cols) : ~in_range(row, c)
      THEN raised("IndexError")
      ELSE answers_tuple(
             [d \in elements(DIVISION_TO_INDEX) |->
                IF d = self.division THEN division_args
                ELSE repeat("", DIVISION_ARG_COUNT + 1)],
             whole_args)

(***************************************************************************)
(* MultiDivisionReader                                                     *)
(***************************************************************************)
\* A MultiDivisionReader whose open range starts on the last categorical column.
MultiDivisionReader_overlapping(divisions, start_categorical, end_categorical, start_open, end_open, whole_school_cols) ==
  [kind |-> "multi",
   divisions |-> divisions,
   start_categorical |-> col_to_index(start_categorical),
   end_categorical |-> col_to_index(end_categorical),
   start_open |-> col_to_index(start_open) - 1,
   end_open |-> col_to_index(end_open) - 1,
   whole_school_cols |->
     [k \in 1..Len(whole_school_cols) |-> col_to_index(whole_school_cols[k])]]

MultiDivisionReader(divisions, start_categorical, end_categorical, start_open, end_open, whole_school_cols) ==
  [kind |-> "multi",
   divisions |-> divisions,
   start_categorical |-> col_to_index(start_categorical),
   end_categorical |-> col_to_index(end_categorical),
   start_open |-> col_to_index(start_open),
   end_open |-> col_to_index(end_open),
   whole_school_cols |->
     [k \in 1..Len(whole_school_cols) |-> col_to_index(whole_school_cols[k])]]

\* The loops of lines 107..110 and 114..117: the value of the list of lists
\* after the iterations for columns start..col, each of which appends the
\* cell of its column to list j % len(args), j counting the iterations from 0.
RECURSIVE deal(_, _, _, _)
deal(args, row, start, col) ==
  IF col < start THEN args
  ELSE [deal(args, row, start, col - 1)
          EXCEPT ![((col - start) % Len(args)) + 1] = Append(@, cell(row, col))]

\* division_args after the first n iterations of the loop of lines 104..105
RECURSIVE division_lists(_, _)
division_lists(divisions, n) ==
  IF n = 0 THEN <<>> ELSE Append(division_lists(divisions, n - 1), <<divisions[n]>>)

\* The loop of lines 107..110 with j starting at 1: the first cell goes to
\* the second division.
deal_categorical_from_one(self, row) ==
  deal(division_lists(
         [k \in 1..Len(self.divisions) |->
            self.divisions[((k + Len(self.divisions) - 2) % Len(self.divisions)) + 1]],
         Len(self.divisions)),
       row, self.start_categorical, self.end_categorical)

\* division_args after the loop of lines 107..110
deal_categorical(self, row) ==
  deal(division_lists(self.divisions, Len(self.divisions)),
       row, self.start_categorical, self.end_categorical)

\* The loop of lines 114..117 with the whole-school list put first.
deal_open_whole_first(self, row) ==
  deal(<< <<>> >> \o deal_categorical(self, row),
       row, self.start_open, self.end_open)

\* args after the loop of lines 114..117
deal_open(self, row) ==
  deal(Append(deal_categorical(self, row), <<>>),
       row, self.start_open, self.end_open)

MultiDivisionReader_call(self, row) ==
  LET args == deal_open(self, row)
      whole_args == args[Len(args)] \o
                    [k \in 1..Len(self.whole_school_cols) |->
                       cell(row, self.whole_school_cols[k])]
      division_args == SubSeq(args, 1, Len(args) - 1)
      \* the last d of division_args with d[0] == k (lines 127..129)
      found(k) == division_args[CHOOSE n \in 1..Len(division_args) :
                                  /\ division_args[n][1] = k
                                  /\ \A m \in (n + 1)..Len(division_args) :
                                       division_args[m][1] # k]
      reads == elements(range(self.start_categorical, self.end_categorical + 1))
               \cup elements(range(self.start_open, self.end_open + 1))
               \cup elements(self.whole_school_cols)
  IN  IF \E c \in reads : ~in_range(row, c)
      THEN raised("IndexError")
      ELSE answers_tuple(
             [k \in elements(DIVISION_TO_INDEX) |->
                IF k \in elements(self.divisions) THEN found(k)
                ELSE repeat("", DIVISION_ARG_COUNT + 1)],
             whole_args)

\* A reader call that applies the single-division reader with strengths and
\* weaknesses taken from each other's column.
reader_call_swapped(self, row) ==
  IF self.kind = "single"
  THEN SingleDivisionReader_call(
         [self EXCEPT !.strengths = self.weaknesses, !.weaknesses = self.strengths], row)
  ELSE MultiDivisionReader_call(self, row)

\* reader(row)
reader_call(self, row) ==
  IF self.kind = "single" THEN SingleDivisionReader_call(self, row)
  ELSE MultiDivisionReader_call(self, row)

(***************************************************************************)
(* The registry                                                            *)
(***************************************************************************)
SurveyReader(survey_type, reader) == [survey_type |-> survey_type, reader |-> reader]

ED == <<"E", "D">>
EE == <<"E", "E">>
EF == <<"E", "F">>

\* The list of line 139..154
SurveyReaderList ==
  << SurveyReader("Grammar School only (K-6)",
       SingleDivisionReader(GRAMMAR, <<"L">>, <<"R">>, <<"S">>, <<"U">>,
                            << <<"T">>, <<"V">>, ED, EE, EF >>)),
     SurveyReader("Middle School only (7-8)",
       SingleDivisionReader(MIDDLE, <<"C", "N">>, <<"C", "T">>, <<"C", "U">>, <<"C", "W">>,
                            << <<"C", "V">>, <<"C", "X">>, ED, EE, EF >>)),
     SurveyReader("High School only (9-12)",
       SingleDivisionReader(HIGH, <<"D", "S">>, <<"D", "Y">>, <<"D", "Z">>, <<"E", "B">>,
                            << <<"E", "A">>, <<"E", "C">>, ED, EE, EF >>)),
     SurveyReader("Grammar and Middle School only (K-6 and 7-8)",
       MultiDivisionReader(<<GRAMMAR, MIDDLE>>, <<"W">>, <<"A", "J">>,
                           <<"A", "K">>, <<"A", "P">>, <<ED, EE, EF>>)),
     SurveyReader("Grammar and High School only (K-6 and 9-12)",
       MultiDivisionReader(<<GRAMMAR, HIGH>>, <<"A", "Q">>, <<"B", "D">>,
                           <<"B", "E">>, <<"B", "J">>, <<ED, EE, EF>>)),
     SurveyReader("Grammar, Middle, and High School (K-6, 7-8, and 9-12)",
       MultiDivisionReader(<<GRAMMAR, MIDDLE, HIGH>>, <<"B", "K">>, <<"C", "E">>,
                           <<"C", "F">>, <<"C", "M">>, <<ED, EE, EF>>)),
     SurveyReader("Middle and High School only (7-8 and 9-12)",
       MultiDivisionReader(<<MIDDLE, HIGH>>, <<"C", "Y">>, <<"D", "L">>,
                           <<"D", "M">>, <<"D", "R">>, <<ED, EE, EF>>)) >>

\* {x.survey_type : x for x in list}: a later x replaces an earlier one of
\* the same survey_type.
dict_by_survey_type(list) ==
  [t \in {list[k].survey_type : k \in 1..Len(list)} |->
     list[CHOOSE k \in 1..Len(list) :
            /\ list[k].survey_type = t
            /\ \A m \in (k + 1)..Len(list) : list[m].survey_type # t]]

SURVEY_READERS == dict_by_survey_type(SurveyReaderList)

(***************************************************************************)
(* Cleaner                                                                 *)
(***************************************************************************)
make_first_row(row) ==
  slice(row, 0, col_to_index(<<"K">>) + 1)
    \o repeat("grammar", DIVISION_ARG_COUNT)
    \o repeat("middle", DIVISION_ARG_COUNT)
    \o repeat("high", DIVISION_ARG_COUNT)
    \o repeat("whole", WHOLE_SCHOOL_ARG_COUNT)

make_second_row(row) ==
  slice(row, 0, col_to_index(<<"K">>) + 1)
    \o DIVISION_DATA_ARGS
    \o DIVISION_DATA_ARGS
    \o DIVISION_DATA_ARGS
    \o WHOLE_SCHOOL_ARGS

\* [getattr(answers, attr) for attr in fields]
attrs(answers, fields) == [k \in 1..Len(fields) |-> getattr(answers, fields[k])]

\* output_row of lines 175..182
make_output_row(row, processed) ==
  slice(row, 0, col_to_index(<<"K">>) + 1)
    \o attrs(processed[1], DIVISION_DATA_ARGS)
    \o attrs(processed[2], DIVISION_DATA_ARGS)
    \o attrs(processed[3], DIVISION_DATA_ARGS)
    \o attrs(processed[4], WHOLE_SCHOOL_ARGS)

\* Lines 172..184 for a row whose survey type is a key of SURVEY_READERS:
\* the exception the reader raises, or its result and the row written.
registered_row(row) ==
  LET reader == SURVEY_READERS[cell(row, ROW_INDEX_SURVEY_TYPE)].reader
      result == reader_call(reader, row)
  IN  IF result.exc # ""
      THEN [exc |-> result.exc, processed |-> <<>>, written |-> <<>>]
      ELSE [exc |-> "", processed |-> result.val,
            written |-> <<make_output_row(row, result.val)>>]

\* A loop body that writes a row of empty answers for a survey type that is
\* not registered.
data_row_default(row) ==
  IF ~in_range(row, ROW_INDEX_SURVEY_TYPE)
  THEN [exc |-> "IndexError", processed |-> <<>>, written |-> <<>>]
  ELSE IF cell(row, ROW_INDEX_SURVEY_TYPE) \notin DOMAIN SURVEY_READERS
  THEN [exc |-> "", processed |-> <<>>,
        written |-> <<slice(row, 0, ROW_INDEX_SURVEY_TYPE + 1)
                        \o repeat("", 3 * DIVISION_ARG_COUNT + WHOLE_SCHOOL_ARG_COUNT)>>]
  ELSE registered_row(row)

\* The else branch of the loop body (lines 171..184) for one row: the
\* exception it raises, or the reader's result and the row it writes.
data_row(row) ==
  IF ~in_range(row, ROW_INDEX_SURVEY_TYPE)
  THEN [exc |-> "IndexError", processed |-> <<>>, written |-> <<>>]
  ELSE LET survey_type == cell(row, ROW_INDEX_SURVEY_TYPE)
       IN  IF survey_type \notin DOMAIN SURVEY_READERS
           THEN [exc |-> "KeyError", processed |-> <<>>, written |-> <<>>]
           ELSE registered_row(row)

(***************************************************************************)
(* The input.  A row of the survey export has a cell for each of the       *)
(* columns A..EF; cell c holds a text that names the column, and the       *)
(* survey-type cell holds the survey type.  Short rows end early.          *)
(***************************************************************************)
RowWidth == col_to_index(EF) + 1

make_row(survey_type, n) ==
  [k \in 1..n |-> IF k - 1 = ROW_INDEX_SURVEY_TYPE THEN survey_type
                  ELSE "c" \o ToString(k - 1)]

RegisteredTypes == DOMAIN SURVEY_READERS

UnregisteredTypes == {"", "grammar school only (k-6)"}

\* The rows the input file may hold: a full row for every survey type but the
\* last registered one, whose row has a cell more; rows that end with the
\* survey-type cell; a row that ends before it.
Rows ==
  {make_row(t, RowWidth) :
     t \in (RegisteredTypes \ {"Middle and High School only (7-8 and 9-12)"})
            \cup UnregisteredTypes}
    \cup {make_row("Middle and High School only (7-8 and 9-12)", RowWidth + 1)}
    \cup {make_row(t, ROW_INDEX_SURVEY_TYPE + 1) : t \in {"Grammar School only (K-6)", ""}}
    \cup {make_row("", ROW_INDEX_SURVEY_TYPE)}

\* The rows the two header lines may hold: full rows with a registered and with
\* an unregistered text in the survey-type cell, the row with a cell more, the
\* row that ends with an empty survey-type cell and the row that ends before it.
HeaderRows ==
  {make_row(t, RowWidth) : t \in {"High School only (9-12)", "grammar school only (k-6)"}}
    \cup {make_row("Middle and High School only (7-8 and 9-12)", RowWidth + 1)}
    \cup {make_row("", ROW_INDEX_SURVEY_TYPE + 1)}
    \cup {make_row("", ROW_INDEX_SURVEY_TYPE)}

ColIdle == /\ col_name = <<>> /\ col_ret = <<>> /\ col_exc = ""
RdIdle == /\ rd_cfg = <<>> /\ rd_row = <<>> /\ rd_out = raised("idle")
CleanerIdle ==
  /\ infile = <<>> /\ i = 0 /\ outfile = <<>> /\ processed_row = <<>> /\ status = "idle"

(***************************************************************************)
(* The loop of Cleaner.__init__: one action per iteration.                 *)
(***************************************************************************)
Init ==
  /\ ColIdle /\ RdIdle
  /\ infile = <<>>
  /\ i = 0
  /\ outfile = <<>>
  /\ processed_row = <<>>
  /\ status = "running"

FirstRow ==
  /\ status = "running" /\ i = 0 /\ i < MaxRows
  /\ \E row \in HeaderRows :
       /\ infile' = Append(infile, row)
       /\ outfile' = Append(outfile, make_first_row(row))
  /\ i' = i + 1
  /\ UNCHANGED <<processed_row, status, colVars, rdVars>>

\* The loop body without its elif branch: the row of index 1 is handled as data.
SecondRowAsData ==
  /\ status = "running" /\ i = 1 /\ i < MaxRows
  /\ \E row \in HeaderRows :
       \E r \in {data_row(row)} :
           /\ infile' = Append(infile, row)
           /\ outfile' = outfile \o r.written
           /\ processed_row' = IF r.exc = "" THEN r.processed ELSE processed_row
           /\ status' = IF r.exc = "" THEN status ELSE r.exc
  /\ i' = i + 1
  /\ UNCHANGED <<colVars, rdVars>>

SecondRow ==
  /\ status = "running" /\ i = 1 /\ i < MaxRows
  /\ \E row \in HeaderRows :
       /\ infile' = Append(infile, row)
       /\ outfile' = Append(outfile, make_second_row(row))
  /\ i' = i + 1
  /\ UNCHANGED <<processed_row, status, colVars, rdVars>>

DataRow ==
  /\ status = "running" /\ i > 1 /\ i < MaxRows
  /\ \E row \in Rows :
       \E r \in {data_row(row)} :
           /\ infile' = Append(infile, row)
           /\ outfile' = outfile \o r.written
           /\ processed_row' = IF r.exc = "" THEN r.processed ELSE processed_row
           /\ status' = IF r.exc = "" THEN status ELSE r.exc
  /\ i' = i + 1
  /\ UNCHANGED <<colVars, rdVars>>

\* The reader is exhausted: the loop and both with blocks end.
EndOfInput ==
  /\ status = "running"
  /\ status' = "done"
  /\ UNCHANGED <<infile, i, outfile, processed_row, colVars, rdVars>>

Next == FirstRow \/ SecondRow \/ DataRow \/ EndOfInput

Spec == Init /\ [][Next]_vars

(***************************************************************************)
(* Properties of the Cleaner loop.  Row number k of the input (1-based) is *)
(* infile[k]; when it was written, its output row is outfile[k].           *)
(***************************************************************************)
SingleLiterals ==
  {"Grammar School only (K-6)", "Middle School only (7-8)", "High School only (9-12)"}

MultiLiterals ==
  {"Grammar and Middle School only (K-6 and 7-8)",
   "Grammar and High School only (K-6 and 9-12)",
   "Grammar, Middle, and High School (K-6, 7-8, and 9-12)",
   "Middle and High School only (7-8 and 9-12)"}

SevenLiterals == SingleLiterals \cup MultiLiterals

\* the cells of columns 0..K that the row has
Leading(row) == SubSeq(row, 1, IF Len(row) < 11 THEN Len(row) ELSE 11)

HasSurveyType(row) == Len(row) >= 11

SurveyTypeOf(row) == row[11]

\* the 9 cells of division d (1 grammar, 2 middle, 3 high) and the 5
\* whole-school cells of an output row of 43 cells
Block(out, d) == SubSeq(out, 11 + 9 * (d - 1) + 1, 11 + 9 * d)

Whole(out) == SubSeq(out, 39, 43)

DivisionNumber(name) == CHOOSE d \in 1..3 : <<"grammar", "middle", "high">>[d] = name

Empty9 == <<"", "", "", "", "", "", "", "", "">>

\* the columns a reader reads into answer fields, as a set, and how many
\* reads it makes
LayoutColumns(cfg) ==
  IF cfg.kind = "single"
  THEN ({c \in cfg.start..cfg.end : c \notin elements(cfg.whole_school_cols)}
          \cup {cfg.strengths, cfg.weaknesses}) \cup elements(cfg.whole_school_cols)
  ELSE ((cfg.start_categorical..cfg.end_categorical)
          \cup (cfg.start_open..cfg.end_open)) \cup elements(cfg.whole_school_cols)

LayoutReads(cfg) ==
  IF cfg.kind = "single"
  THEN Cardinality({c \in cfg.start..cfg.end : c \notin elements(cfg.whole_school_cols)})
         + 2 + Len(cfg.whole_school_cols)
  ELSE (cfg.end_categorical - cfg.start_categorical + 1)
         + (cfg.end_open - cfg.start_open + 1) + Len(cfg.whole_school_cols)

LayoutDivisions(cfg) == IF cfg.kind = "single" THEN 1 ELSE Len(cfg.divisions)

\* a data row of a registered layout that holds every column of the layout
LongRegistered(row) ==
  /\ HasSurveyType(row)
  /\ SurveyTypeOf(row) \in DOMAIN SURVEY_READERS
  /\ \A c \in LayoutColumns(SURVEY_READERS[SurveyTypeOf(row)].reader) : c < Len(row)

\* C2: for each of the seven registered layouts and a row long enough for
\* every configured column, the reader builds three DivisionAnswers of 9
\* data fields plus division_name and a WholeSchoolAnswers of 5 fields: no
\* record construction fails on the number of arguments.
C2_RecordShapes ==
  /\ status # "TypeError"
  /\ DOMAIN SURVEY_READERS = SevenLiterals
  /\ \A k \in 3..Len(infile) : LongRegistered(infile[k]) => k <= Len(outfile)
  /\ processed_row # <<>> =>
       /\ DOMAIN processed_row = 1..4
       /\ \A v \in 1..3 :
            /\ DOMAIN processed_row[v] = {"division_name"} \cup elements(DIVISION_DATA_ARGS)
            /\ Cardinality(DOMAIN processed_row[v]) = 9 + 1
       /\ DOMAIN processed_row[4] = elements(WHOLE_SCHOOL_ARGS)
       /\ Cardinality(DOMAIN processed_row[4]) = 5

C2_Witness ==
  /\ Len(outfile) = 4
  /\ status = "running"
  /\ SurveyTypeOf(infile[3]) = "Grammar, Middle, and High School (K-6, 7-8, and 9-12)"
  /\ SurveyTypeOf(infile[4]) = "High School only (9-12)"
  /\ processed_row[3]["division_name"] = "high"
  /\ processed_row[1]["division_name"] = ""

\* C3 as stated: every row written is the input row's cells of columns 0..10
\* followed by 27 division cells and 5 whole-school cells, 43 cells in all,
\* for every input row.
C3_Original ==
  \A k \in 1..Len(outfile) :
    /\ Len(outfile[k]) = 43
    /\ Len(infile[k]) >= 11
    /\ SubSeq(outfile[k], 1, 11) = SubSeq(infile[k], 1, 11)

\* C3 amended: every row written is the cells of columns 0..10 that the
\* input row has, unchanged, followed by exactly 27 division cells and 5
\* whole-school cells: min(len(row), 11) + 32 cells, which is 43 for every
\* input row of at least 11 cells and so for every data row written.
C3_OutputRowShape ==
  \A k \in 1..Len(outfile) :
    \E n \in {IF Len(infile[k]) < 11 THEN Len(infile[k]) ELSE 11} :
      /\ Len(outfile[k]) = n + 27 + 5
      /\ SubSeq(outfile[k], 1, n) = SubSeq(infile[k], 1, n)
      /\ Len(infile[k]) >= 11 => Len(outfile[k]) = 43
      /\ k >= 3 => Len(outfile[k]) = 43

C3_Witness ==
  /\ Len(outfile) = 3
  /\ Len(infile[1]) = 10 /\ Len(outfile[1]) = 42
  /\ Len(infile[2]) = 137 /\ Len(outfile[2]) = 43
  /\ Len(infile[3]) = 136 /\ Len(outfile[3]) = 43

\* C4: a data row (index >= 2) whose survey-type cell is none of the seven
\* registered literals fails with a lookup error: no output row is written
\* for it and the run is over, so it is the last row ever read.
C4_UnregisteredAborts ==
  \A k \in 3..Len(infile) :
    (HasSurveyType(infile[k]) /\ SurveyTypeOf(infile[k]) \notin SevenLiterals)
    => /\ status = "KeyError"
       /\ k = Len(infile)
       /\ Len(outfile) = k - 1

C4_Witness ==
  /\ status = "KeyError"
  /\ Len(infile) = 3 /\ Len(outfile) = 2
  /\ SurveyTypeOf(infile[3]) = "grammar school only (k-6)"
  /\ Len(infile) < MaxRows

\* C5: a row is handled by its index alone.  Row 0 is written as the first
\* header and row 1 as the second header whatever their survey-type cell
\* holds, neither fails, every later row is dispatched through the registry,
\* and while no row has failed there is one output row per input row read,
\* in input order.
C5_IndexDriven ==
  /\ Len(infile) = i
  /\ Len(infile) >= 1 =>
       /\ Len(outfile) >= 1
       /\ outfile[1] = Leading(infile[1])
                         \o repeat("grammar", 9) \o repeat("middle", 9)
                         \o repeat("high", 9) \o repeat("whole", 5)
  /\ Len(infile) >= 2 =>
       /\ Len(outfile) >= 2
       /\ outfile[2] = Leading(infile[2])
                         \o DIVISION_DATA_ARGS \o DIVISION_DATA_ARGS \o DIVISION_DATA_ARGS
                         \o WHOLE_SCHOOL_ARGS
  /\ Len(infile) <= 2 => status \in {"running", "done"}
  /\ \A k \in 3..Len(infile) :
       IF LongRegistered(infile[k])
       THEN /\ k <= Len(outfile)
            /\ \E r \in {reader_call(SURVEY_READERS[SurveyTypeOf(infile[k])].reader, infile[k])} :
                 /\ r.exc = ""
                 /\ outfile[k] = Leading(infile[k])
                                   \o attrs(r.val[1], DIVISION_DATA_ARGS)
                                   \o attrs(r.val[2], DIVISION_DATA_ARGS)
                                   \o attrs(r.val[3], DIVISION_DATA_ARGS)
                                   \o attrs(r.val[4], WHOLE_SCHOOL_ARGS)
       ELSE /\ k = Len(infile)
            /\ Len(outfile) = k - 1
            /\ status \in {"IndexError", "KeyError"}
  /\ status \in {"running", "done"} => Len(outfile) = Len(infile)
  /\ \A k \in 1..Len(outfile) :
       SubSeq(outfile[k], 1, Len(Leading(infile[k]))) = Leading(infile[k])

C5_Witness ==
  /\ status = "done"
  /\ Len(outfile) = 4
  /\ Len(infile[1]) = 136 /\ Len(infile[2]) = 136
  /\ SurveyTypeOf(infile[1]) = "High School only (9-12)"
  /\ SurveyTypeOf(infile[2]) = "grammar school only (k-6)"
  /\ SurveyTypeOf(infile[3]) = "Middle School only (7-8)"
  /\ SurveyTypeOf(infile[4]) = "Grammar and Middle School only (K-6 and 7-8)"

\* C6: the second header row is the leading columns of row 1 followed by the
\* 9 canonical division field names (education, growth, virtues,
\* character_growth, teacher_communication, leadership_communication,
\* welcoming, strengths, weaknesses) three times and the 5 whole-school
\* field names once.
C6_SecondHeaderNames ==
  Len(outfile) >= 2 =>
    \E canonical \in {<<"education", "growth", "virtues", "character_growth",
                        "teacher_communication", "leadership_communication",
                        "welcoming", "strengths", "weaknesses">>} :
      outfile[2] = Leading(infile[2]) \o canonical \o canonical \o canonical
                     \o <<"strengths", "weaknesses", "tenure", "iep_etc", "minority">>

\* C7: for each of the three single-division layouts and a sufficiently
\* long data row, the row is written; the block of the addressed division is
\* the cells of the configured categorical range that are not whole-school
\* columns, in column order, then the configured strengths cell, then the
\* configured weaknesses cell; the blocks of the other two divisions are 9
\* empty strings each; the whole-school block is the 5 configured
\* whole-school cells in configured order.  By column: grammar-only reads
\* L..R, S, U and T, V, ED, EE, EF; middle-only CN..CT, CU, CW and CV, CX,
\* ED, EE, EF; high-only DS..DY, DZ, EB and EA, EC, ED, EE, EF.
C7_SingleDivisionRows ==
  /\ \A k \in 3..Len(infile) :
       (LongRegistered(infile[k]) /\ SurveyTypeOf(infile[k]) \in SingleLiterals)
       => k <= Len(outfile)
  /\ \A k \in 3..Len(outfile) :
       SurveyTypeOf(infile[k]) \in SingleLiterals =>
         LET row == infile[k]
             out == outfile[k]
             cfg == SURVEY_READERS[SurveyTypeOf(row)].reader
             d == DivisionNumber(cfg.division)
             kept == {c \in cfg.start..cfg.end : c \notin elements(cfg.whole_school_cols)}
             \* the j-th kept column
             nth(j) == CHOOSE c \in kept : Cardinality({x \in kept : x <= c}) = j
             by_column ==
               IF SurveyTypeOf(row) = "Grammar School only (K-6)"
               THEN << 1, <<11, 12, 13, 14, 15, 16, 17, 18, 20>>, <<19, 21, 133, 134, 135>> >>
               ELSE IF SurveyTypeOf(row) = "Middle School only (7-8)"
               THEN << 2, <<91, 92, 93, 94, 95, 96, 97, 98, 100>>, <<99, 101, 133, 134, 135>> >>
               ELSE << 3, <<122, 123, 124, 125, 126, 127, 128, 129, 131>>,
                       <<130, 132, 133, 134, 135>> >>
         IN  /\ Cardinality(kept) = 7
             /\ \A j \in 1..7 : Block(out, d)[j] = row[nth(j) + 1]
             /\ Block(out, d)[8] = row[cfg.strengths + 1]
             /\ Block(out, d)[9] = row[cfg.weaknesses + 1]
             /\ \A e \in 1..3 : e # d => Block(out, e) = Empty9
             /\ Len(cfg.whole_school_cols) = 5
             /\ \A m \in 1..5 : Whole(out)[m] = row[cfg.whole_school_cols[m] + 1]
             /\ d = by_column[1]
             /\ \A j \in 1..9 : Block(out, d)[j] = row[by_column[2][j] + 1]
             /\ \A m \in 1..5 : Whole(out)[m] = row[by_column[3][m] + 1]

C7_Witness ==
  /\ Len(outfile) = 3
  /\ SurveyTypeOf(infile[3]) = "Grammar School only (K-6)"
  /\ Block(outfile[3], 1) = <<"c11", "c12", "c13", "c14", "c15", "c16", "c17", "c18", "c20">>
  /\ Block(outfile[3], 2) = Empty9
  /\ Whole(outfile[3]) = <<"c19", "c21", "c133", "c134", "c135">>

\* C9: for each of the four multi-division layouts, of n = 2 or 3 divisions,
\* and a sufficiently long data row, the row is written; the division at
\* position q (0-based) of the configured list gets as its 7 categorical
\* fields the cells at offsets q, q+n, .., q+6n of the categorical range and
\* as strengths and weaknesses the cells at offsets q and q+(n+1) of the
\* open range; the whole-school block is the open-range cells at offsets n
\* and 2n+1, then the cells of ED, EE, EF; a division that is not in the list
\* gets 9 empty strings.
C9_MultiDivisionRows ==
  /\ \A k \in 3..Len(infile) :
       (LongRegistered(infile[k]) /\ SurveyTypeOf(infile[k]) \in MultiLiterals)
       => k <= Len(outfile)
  /\ \A k \in 3..Len(outfile) :
       SurveyTypeOf(infile[k]) \in MultiLiterals =>
         LET row == infile[k]
             out == outfile[k]
             cfg == SURVEY_READERS[SurveyTypeOf(row)].reader
             n == Len(cfg.divisions)
             cat(off) == row[cfg.start_categorical + off + 1]
             open(off) == row[cfg.start_open + off + 1]
         IN  /\ n \in {2, 3}
             /\ cfg.end_categorical - cfg.start_categorical + 1 = 7 * n
             /\ cfg.end_open - cfg.start_open + 1 = 2 * (n + 1)
             /\ \A q \in 0..(n - 1) :
                  \E d \in {DivisionNumber(cfg.divisions[q + 1])} :
                    /\ \A j \in 1..7 : Block(out, d)[j] = cat(q + (j - 1) * n)
                    /\ Block(out, d)[8] = open(q)
                    /\ Block(out, d)[9] = open(q + (n + 1))
             /\ Whole(out) = <<open(n), open(2 * n + 1), row[134], row[135], row[136]>>
             /\ \A d \in 1..3 :
                  (\A q \in 1..n : DivisionNumber(cfg.divisions[q]) # d)
                  => Block(out, d) = Empty9

C9_Witness ==
  /\ Len(outfile) = 4
  /\ Len(infile[3]) = 137
  /\ SurveyTypeOf(infile[3]) = "Middle and High School only (7-8 and 9-12)"
  /\ Block(outfile[3], 1) = Empty9
  /\ Block(outfile[3], 3)
       = <<"c103", "c105", "c107", "c109", "c111", "c113", "c115", "c117", "c120">>
  /\ SurveyTypeOf(infile[4]) = "Grammar, Middle, and High School (K-6, 7-8, and 9-12)"
  /\ Whole(outfile[4]) = <<"c86", "c90", "c133", "c134", "c135">>

\* C10: within a registered layout no column is read into two answer
\* fields: a layout of n divisions makes 9n+5 reads of 9n+5 different
\* columns, all to the right of the survey-type column K; the columns of
\* two different layouts have only ED, EE, EF in common; and the answer cells
\* of a data row are cells of its own layout's columns (or empty), the same
\* whatever the cells of every other column hold.
C10_ColumnBookkeeping ==
  /\ DOMAIN SURVEY_READERS = SevenLiterals
  /\ \A t \in SevenLiterals :
       \E cfg \in {SURVEY_READERS[t].reader} :
         /\ LayoutReads(cfg) = 9 * LayoutDivisions(cfg) + 5
         /\ Cardinality(LayoutColumns(cfg)) = 9 * LayoutDivisions(cfg) + 5
         /\ \A c \in LayoutColumns(cfg) : c > 10
  /\ \A t1, t2 \in SevenLiterals :
       t1 # t2 =>
         LayoutColumns(SURVEY_READERS[t1].reader) \cap LayoutColumns(SURVEY_READERS[t2].reader)
           = {133, 134, 135}
  /\ (Len(outfile) >= 3 /\ Len(outfile) = Len(infile)) =>
       \E row \in {infile[Len(infile)]} :
         \E out \in {outfile[Len(outfile)]} :
           \E cols \in {LayoutColumns(SURVEY_READERS[SurveyTypeOf(row)].reader)} :
             /\ \A j \in 12..43 : out[j] = "" \/ \E c \in cols : out[j] = row[c + 1]
             /\ data_row(SubSeq([c \in 1..Len(row) |->
                                    IF (c - 1) \in cols \/ c <= 11 THEN row[c]
                                    ELSE "changed"], 1, Len(row))).written
                  = <<out>>

C10_Witness ==
  /\ Len(outfile) = 4 /\ Len(infile) = 4
  /\ SurveyTypeOf(infile[4]) = "Grammar and High School only (K-6 and 9-12)"
  /\ outfile[4][12] = "c42"
  /\ outfile[4][43] = "c135"

(***************************************************************************)
(* col_to_index on its own: it is called once on a label.                  *)
(***************************************************************************)
InputChars ==
  {UpperTable[k] : k \in 1..Len(UpperTable)} \cup {"k", "z"}

Labels == UNION {[1..n -> InputChars] : n \in 0..MaxLabelLen}

InitCol ==
  /\ col_name \in Labels
  /\ col_ret = <<>>
  /\ col_exc = ""
  /\ RdIdle /\ CleanerIdle

ColToIndex ==
  /\ col_ret = <<>> /\ col_exc = ""
  /\ IF col_to_index_asserts(col_name)
     THEN col_ret' = <<col_to_index(col_name)>> /\ col_exc' = col_exc
     ELSE col_exc' = "AssertionError" /\ col_ret' = col_ret
  /\ UNCHANGED <<col_name, rdVars, cleanerVars>>

NextCol == ColToIndex

SpecCol == InitCol /\ [][NextCol]_vars

\* C1: for a label of 1 to 3 letters, in either case, col_to_index returns
\* the bijective base-26 value of the label (A = 1 .. Z = 26, the letter at
\* position p from the right weighted 26^p) minus 1: 0 for A, 25 for Z, 26
\* for AA; and the label that follows it in spreadsheet order (shorter
\* labels first, then alphabetical) has a greater index, so the index is
\* strictly increasing in spreadsheet order and injective.
C1_ColToIndex ==
  LET letter(c) == \E v \in 1..26 : UpperTable[v + 1] = c \/ LowerTable[v] = c
      value(c) == CHOOSE v \in 1..26 : UpperTable[v + 1] = c \/ LowerTable[v] = c
      n == Len(col_name)
      d(k) == value(col_name[k])
      numeral == IF n = 1 THEN d(1)
                 ELSE IF n = 2 THEN 26 * d(1) + d(2)
                 ELSE 676 * d(1) + 26 * d(2) + d(3)
      \* the last position that does not hold a Z, 0 if there is none
      p == IF \E k \in 1..n : d(k) # 26
           THEN CHOOSE k \in 1..n : d(k) # 26 /\ \A m \in (k + 1)..n : d(m) = 26
           ELSE 0
      successor == IF p = 0 THEN [k \in 1..(n + 1) |-> "A"]
                   ELSE [k \in 1..n |-> IF k < p THEN UpperTable[d(k) + 1]
                                        ELSE IF k = p THEN UpperTable[d(k) + 2]
                                        ELSE "A"]
  IN  (/\ col_ret # <<>> \/ col_exc # ""
       /\ n \in 1..3
       /\ \A k \in 1..n : letter(col_name[k]))
      => /\ col_exc = ""
         /\ col_ret = <<numeral - 1>>
         /\ col_name = <<"A">> => col_ret = <<0>>
         /\ col_name = <<"Z">> => col_ret = <<25>>
         /\ col_name = <<"A", "A">> => col_ret = <<26>>
         /\ Len(successor) <= 3 => col_to_index(successor) > col_ret[1]

C1_Witness ==
  /\ col_name = <<"z", "Y", "k">>
  /\ col_ret = <<676 * 26 + 26 * 25 + 11 - 1>>

(***************************************************************************)
(* MultiDivisionReader on its own: a reader is built from a configuration  *)
(* and called once on a row.  The configurations are the shape of the      *)
(* registered two-division layout (14 categorical columns, 6 open columns, *)
(* 3 whole-school columns) and shapes with 18 categorical columns.         *)
(***************************************************************************)
DivisionLists ==
  {<<GRAMMAR, MIDDLE>>, <<GRAMMAR, HIGH>>, <<MIDDLE, HIGH>>, <<GRAMMAR, MIDDLE, HIGH>>}

\* <<end_categorical, start_open, end_open, whole_school_cols>>
MultiShapes ==
  { << <<"A", "J">>, <<"A", "K">>, <<"A", "P">>, <<ED, EE, EF>> >>,
    << <<"A", "N">>, <<"A", "O">>, <<"A", "T">>, <<ED, EE, EF>> >>,
    << <<"A", "N">>, <<"A", "O">>, <<"A", "N">>, <<ED, EE, EF>> >>,
    << <<"A", "N">>, <<"A", "O">>, <<"A", "N">>,
       << <<"A", "O">>, <<"A", "P">>, ED, EE, EF >> >> }

MultiReaders ==
  {MultiDivisionReader(d, <<"W">>, s[1], s[2], s[3], s[4]) :
     d \in DivisionLists, s \in MultiShapes}

InitMulti ==
  /\ rd_cfg \in MultiReaders
  /\ rd_row \in Rows
  /\ rd_out = raised("not called")
  /\ ColIdle /\ CleanerIdle

CallReader ==
  /\ rd_out = raised("not called")
  /\ rd_out' = reader_call(rd_cfg, rd_row)
  /\ UNCHANGED <<rd_cfg, rd_row, colVars, cleanerVars>>

NextMulti == CallReader

SpecMulti == InitMulti /\ [][NextMulti]_vars

====
